---- MODULE Spec2Model ----
(***************************************************************************)
(* revbot: GitLab webhooks relayed as Webex notifications.                 *)
(*                                                                         *)
(* Two entry points are modelled, each from its own source file:           *)
(*   - process_webhook (src/src/gitlab/webhook.rs): decode, diff, enrich   *)
(*     and compose; its two GitLab lookups are the steps of Spec.          *)
(*   - handle (src/src/main.rs): the hyper service function, which decodes *)
(*     with main.rs's own types and sends each message through             *)
(*     WebexClient::send_message; its steps are those of HandleSpec.       *)
(* get_new_assignees, a pure function, is also applied to every pair of    *)
(* bounded user lists in DiffSpec.  ConcurrentSpec interleaves the steps   *)
(* of several deliveries, each taken by one of the two entry points.       *)
(***************************************************************************)
EXTENDS Integers, Sequences, FiniteSets, TLC

\* Number of deliveries (requests / process_webhook calls) in one run.
NumDeliveries == 1
\* User ids are 1..MaxUserId.
MaxUserId == 2
\* Longest `current` / `previous` list drawn in DiffSpec.
MaxAssignees == 2

\* Number of deliveries in flight at once in ConcurrentSpec.
NumConcurrent == 2

Deliveries == 1..NumDeliveries

VARIABLES
    body,         \* body[d]: the request body of delivery d
    pc,           \* pc[d]: position of delivery d's processing
    lookups,      \* lookups[d]: GitLab API calls started by delivery d, in order
    result,       \* result[d]: what process_webhook returned
    whoami_link,  \* WebexClient.whoami_link (Option<String>), set at construction
    queue,        \* queue[d]: messages handle still has to send, head in flight
    sends,        \* sends[d]: send_message calls of delivery d, in order
    log,          \* log[d]: warn!/info! lines of delivery d
    response,     \* response[d]: the Response handle has built
    diff          \* one application of get_new_assignees (DiffSpec)

vars == <<body, pc, lookups, result, whoami_link, queue, sends, log, response, diff>>

----------------------------------------------------------------------------
(* Option<T> as a sequence of length 0 or 1 *)

None == <<>>
Some(x) == <<x>>
IsSome(o) == Len(o) = 1
IsNone(o) == Len(o) = 0

----------------------------------------------------------------------------
(* Data: users, enums *)

UserIds == 1..MaxUserId
Emails == {"a@x", "b@x"}

\* struct User; name and username follow the email so that two records with
\* one id can differ in every other field.
User(id, email) ==
    [email |-> email, id |-> id,
     name |-> IF email = "a@x" THEN "Ann" ELSE "Bob",
     username |-> IF email = "a@x" THEN "ann" ELSE "bob"]

Users == {User(i, e) : i \in UserIds, e \in Emails}

\* gitlab::types::StatusState / main.rs PipelineStatus, in their snake_case wire form
StatusState ==
    {"created", "waiting_for_resource", "preparing", "pending", "running",
     "success", "failed", "canceled", "skipped", "manual", "scheduled"}

\* MergeStatus, in its snake_case wire form
MergeStatus ==
    {"unchecked", "checking", "can_be_merged", "cannot_be_merged",
     "cannot_be_merged_recheck"}

----------------------------------------------------------------------------
(* AssigneeDiffEngine *)

\* impl PartialEq for User: equality is by id alone
UserEqStructural(a, b) == a = b
UserEq(a, b) == a.id = b.id

\* Vec<User>::contains, which uses PartialEq
contains(list, x) == \E i \in 1..Len(list) : UserEq(list[i], x)

RECURSIVE filter_not_in(_, _)
\* current.into_iter().filter(|a| !previous.contains(a)).map(clone).collect()
filter_not_in(current, previous) ==
    IF current = <<>> THEN <<>>
    ELSE LET rest == filter_not_in(Tail(current), previous)
         IN  IF ~contains(previous, Head(current))
             THEN <<Head(current)>> \o rest
             ELSE rest

get_new_assignees(assignee_changes) ==
    filter_not_in(assignee_changes.current, assignee_changes.previous)

----------------------------------------------------------------------------
(* Request bodies.  A body is its bytes' two decoding facts and, when it is *)
(* JSON, the value its text spells.  A value is a record of its JSON type   *)
(* and its content: an integer, a string, a sequence of values, or, for an  *)
(* object, the sequence of its members (key and value) as the text has      *)
(* them, a repeated key included.  A number with a fraction or an exponent, *)
(* or beyond u64, is of type "float".                                       *)

JsonNull == [type |-> "null", val |-> <<>>]
JsonBool(b) == [type |-> "bool", val |-> b]
JsonNumber(n) == [type |-> "number", val |-> n]
JsonFloat(digits) == [type |-> "float", val |-> digits]
JsonString(s) == [type |-> "string", val |-> s]
JsonArray(elements) == [type |-> "array", val |-> elements]
JsonObject(members) == [type |-> "object", val |-> members]
Member(key, value) == [key |-> key, value |-> value]

EmptyObj == [k \in {} |-> JsonNull]

RECURSIVE MembersOf(_, _)
MembersOf(r, keys) ==
    IF keys = {} THEN <<>>
    ELSE LET k == CHOOSE k \in keys : TRUE
         IN  <<Member(k, r[k])>> \o MembersOf(r, keys \ {k})
\* the object whose members are the fields of record r, each key once
JsonRecord(r) == JsonObject(MembersOf(r, DOMAIN r))

JsonBody(value) == [utf8 |-> TRUE, json |-> TRUE, obj |-> value]
InvalidUtf8Body == [utf8 |-> FALSE, json |-> FALSE, obj |-> JsonNull]
InvalidJsonBody == [utf8 |-> TRUE, json |-> FALSE, obj |-> JsonNull]

OptField(name, opt) == IF IsSome(opt) THEN name :> opt[1] ELSE EmptyObj

\* the object with one member set, added or replaced
WithField(object, name, value) ==
    IF \E i \in 1..Len(object.val) : object.val[i].key = name
    THEN JsonObject([i \in 1..Len(object.val) |->
                        IF object.val[i].key = name THEN Member(name, value)
                        ELSE object.val[i]])
    ELSE JsonObject(Append(object.val, Member(name, value)))
\* the object with one more member, whether or not its key is there already
WithMember(object, name, value) == JsonObject(Append(object.val, Member(name, value)))

\* a User as GitLab serializes it
UserJson(u) ==
    JsonRecord([email |-> JsonString(u.email), id |-> JsonNumber(u.id),
                name |-> JsonString(u.name), username |-> JsonString(u.username)])
UsersJson(list) == JsonArray([i \in 1..Len(list) |-> UserJson(list[i])])

Actor == User(1, "a@x")
ActorJson == UserJson(Actor)

ProjectJson ==
    JsonRecord([id |-> JsonNumber(17898), name |-> JsonString("mr-test"),
                path_with_namespace |-> JsonString("hds-/mr-test"),
                web_url |-> JsonString("https://x/mr-test")])
ProjectJsonNoId ==
    JsonRecord([name |-> JsonString("mr-test"),
                web_url |-> JsonString("https://x/mr-test")])

MergeRequestJson ==
    JsonRecord([iid |-> JsonNumber(3), merge_status |-> JsonString("unchecked"),
                title |-> JsonString("Fail pipeline"),
                url |-> JsonString("https://x/mr-test/-/merge_requests/3")])
MergeRequestJsonNoTitle ==
    JsonRecord([iid |-> JsonNumber(3), merge_status |-> JsonString("unchecked")])

PipelineJson(status) ==
    JsonRecord([id |-> JsonNumber(9), ref |-> JsonString("fail-pipeline"),
                status |-> JsonString(status)])

PipelineBodyOf(attrs, mr, project, user) ==
    JsonBody(JsonRecord([object_kind |-> JsonString("pipeline"),
                         object_attributes |-> attrs,
                         project |-> project]
                        @@ OptField("user", user) @@ OptField("merge_request", mr)))

PipelineBody(status, mr, project, user) ==
    PipelineBodyOf(PipelineJson(status), mr, project, user)

MergeRequestBody(attrs, changes, project) ==
    JsonBody(JsonRecord([object_kind |-> JsonString("merge_request"),
                         project |-> project, user |-> ActorJson]
                        @@ OptField("object_attributes", attrs)
                        @@ OptField("changes", changes)))

\* a changes block with an assignees record
ChangesJson(ac) ==
    JsonRecord([assignees |-> JsonRecord([current |-> UsersJson(ac.current),
                                          previous |-> UsersJson(ac.previous)])])
\* a changes block about the title only
ChangesJsonTitle ==
    JsonRecord([title |-> JsonRecord([previous |-> JsonString("titled"),
                                      current |-> JsonString("retitled")])])
\* a changes block whose assignees record lacks `previous`
ChangesJsonNoPrevious ==
    JsonRecord([assignees |-> JsonRecord([current |-> JsonArray(<<ActorJson>>)])])
\* a changes block with a user whose email is a number
ChangesJsonEmailNumber ==
    JsonRecord([assignees |->
        JsonRecord([current |-> JsonArray(<<WithField(ActorJson, "email", JsonNumber(7))>>),
                    previous |-> JsonArray(<<>>)])])

\* the assignee changes the deliveries carry
SampleChanges ==
    LET a1 == User(1, "a@x")  b1 == User(1, "b@x")  b2 == User(2, "b@x")
    IN  { [current |-> <<a1, b2>>, previous |-> <<a1>>],
          [current |-> <<a1, b2>>, previous |-> <<>>],
          [current |-> <<b2, a1>>, previous |-> <<>>],
          [current |-> <<a1>>,     previous |-> <<b1>>],
          [current |-> <<>>,       previous |-> <<a1>>] }

PipelineBodies ==
    { PipelineBody(s, mr, ProjectJson, Some(ActorJson)) :
          s \in StatusState, mr \in {None, Some(MergeRequestJson)} }
    \cup { PipelineBody("bogus", Some(MergeRequestJson), ProjectJson, Some(ActorJson)),
           PipelineBody("success", Some(MergeRequestJson), ProjectJsonNoId, Some(ActorJson)),
           PipelineBody("success", Some(MergeRequestJson), ProjectJson, None),
           PipelineBody("success", Some(MergeRequestJsonNoTitle), ProjectJson, Some(ActorJson)) }

MergeRequestBodies ==
    { MergeRequestBody(Some(MergeRequestJson), c, ProjectJson) :
          c \in {None, Some(ChangesJsonTitle)}
                \cup { Some(ChangesJson(ac)) : ac \in SampleChanges } }
    \cup { MergeRequestBody(None, None, ProjectJson),
           MergeRequestBody(Some(MergeRequestJson), Some(ChangesJsonNoPrevious), ProjectJson),
           MergeRequestBody(Some(MergeRequestJson), None, ProjectJsonNoId) }

PushBody ==
    JsonBody(JsonRecord([object_kind |-> JsonString("push"),
                         project |-> ProjectJson, user |-> ActorJson]))

OtherBodies ==
    { InvalidUtf8Body, InvalidJsonBody, JsonBody(JsonRecord(EmptyObj)), PushBody }

\* bodies with every required key present and a value of another JSON type
\* than the field's
IllTypedBodies ==
    { PipelineBodyOf(WithField(PipelineJson("success"), "id", JsonString("9")),
                     Some(MergeRequestJson), ProjectJson, Some(ActorJson)),
      PipelineBodyOf(WithField(PipelineJson("success"), "finished_at", JsonNumber(5)),
                     Some(MergeRequestJson), ProjectJson, Some(ActorJson)),
      PipelineBody("success", Some(MergeRequestJson), ProjectJson,
                   Some(WithField(ActorJson, "id", JsonNumber(-1)))),
      PipelineBody("success", Some(MergeRequestJson),
                   WithField(ProjectJson, "id", JsonString("17898")), Some(ActorJson)),
      MergeRequestBody(Some(MergeRequestJson), Some(ChangesJsonEmailNumber), ProjectJson) }

\* a pipeline event with its optional members spelled out: finished_at is
\* null, the merge request carries an action
PipelineBodyWithOptions ==
    PipelineBodyOf(WithField(PipelineJson("running"), "finished_at", JsonNull),
                   Some(WithField(MergeRequestJson, "action", JsonString("open"))),
                   ProjectJson, Some(ActorJson))

\* a pipeline event as an array: the tag, then the fields of webhook.rs's
\* PipelineWebhook in declaration order
PipelineBodyAsArray ==
    JsonBody(JsonArray(<<JsonString("pipeline"), MergeRequestJson,
                         PipelineJson("failed"), ProjectJson, ActorJson>>))

\* the value of a body with one more member at its top level
BodyWithMember(b, name, value) == JsonBody(WithMember(b.obj, name, value))

\* bodies whose text repeats a key: the tag, a field of the webhook, a field
\* of a nested struct, the key of a status given as a map
RepeatedKeyBodies ==
    LET pipeline == PipelineBody("success", Some(MergeRequestJson), ProjectJson,
                                 Some(ActorJson))
        mr == MergeRequestBody(Some(MergeRequestJson),
                               Some(ChangesJson([current |-> <<Actor>>, previous |-> <<>>])),
                               ProjectJson)
    IN  { BodyWithMember(PushBody, "object_kind", JsonString("pipeline")),
          BodyWithMember(pipeline, "object_kind", JsonString("pipeline")),
          BodyWithMember(pipeline, "user", ActorJson),
          PipelineBody("success", Some(MergeRequestJson), ProjectJson,
                       Some(WithMember(ActorJson, "id", JsonNumber(1)))),
          BodyWithMember(mr, "changes", JsonNull),
          PipelineBodyOf(WithField(PipelineJson("running"), "status",
                                   JsonObject(<<Member("running", JsonNull),
                                                Member("running", JsonNull)>>)),
                         None, ProjectJson, Some(ActorJson)) }

\* bodies that spell what the decoders ignore or take in another form: an
\* unknown key given twice, a status given as a map of one member
UnusualBodies ==
    { BodyWithMember(BodyWithMember(PipelineBody("failed", Some(MergeRequestJson),
                                                 ProjectJson, Some(ActorJson)),
                                    "commit", JsonNull), "commit", JsonNumber(1)),
      PipelineBodyOf(WithField(PipelineJson("running"), "status",
                               JsonObject(<<Member("running", JsonNull)>>)),
                     None, ProjectJson, Some(ActorJson)) }

Bodies ==
    PipelineBodies \cup MergeRequestBodies \cup OtherBodies \cup IllTypedBodies
    \cup RepeatedKeyBodies \cup UnusualBodies
    \cup {PipelineBodyWithOptions, PipelineBodyAsArray}

----------------------------------------------------------------------------
(* WebhookDecoder: serde's Deserialize for the types of the webhook, from   *)
(* the text of the body.  A type is a record of its kind and parameters;    *)
(* Deserialize(v, ty) is Some(the Rust value) or None for Err.  Every value *)
(* below the Webhook enum is deserialized from serde's buffered Content of  *)
(* the text, which keeps every member of a map.                             *)

U64 == [kind |-> "u64"]
String == [kind |-> "String"]
Option(ty) == [kind |-> "Option", of |-> ty]
Vec(ty) == [kind |-> "Vec", of |-> ty]
\* an enum of unit variants with #[derive(Deserialize)], by wire names
DerivedEnum(variants) == [kind |-> "enum", variants |-> variants, derived |-> TRUE]
\* an enum of gitlab::types, whose Deserialize reads a String and matches it
StringEnum(variants) == [kind |-> "enum", variants |-> variants, derived |-> FALSE]
\* a struct with #[derive(Deserialize)]: its fields in declaration order
Struct(fields) == [kind |-> "struct", fields |-> fields]
Field(name, ty) == [name |-> name, key |-> name, ty |-> ty]
\* a field with #[serde(rename = key)]
Renamed(name, key, ty) == [name |-> name, key |-> key, ty |-> ty]

\* the struct value of deserialized fields xs, or None when one of them failed
Collect(fields, xs) ==
    IF \A i \in 1..Len(fields) : IsSome(xs[i])
    THEN Some([n \in {fields[i].name : i \in 1..Len(fields)} |->
                  xs[CHOOSE i \in 1..Len(fields) : fields[i].name = n][1]])
    ELSE None

RECURSIVE Deserialize(_, _)
Deserialize(v, ty) ==
    CASE ty.kind = "u64" ->
             IF v.type = "number" /\ v.val >= 0 THEN Some(v.val) ELSE None
      [] ty.kind = "String" ->
             IF v.type = "string" THEN Some(v.val) ELSE None
      [] ty.kind = "enum" ->
             \* a string naming a variant; a derived enum also takes the map
             \* {variant: unit}, unit being null or the empty map
             IF v.type = "string"
             THEN IF v.val \in ty.variants THEN Some(v.val) ELSE None
             ELSE IF ty.derived /\ v.type = "object" /\ Len(v.val) = 1
             THEN LET variant == v.val[1].key
                      content == v.val[1].value
                  IN  IF /\ variant \in ty.variants
                         /\ \/ content.type = "null"
                            \/ content.type = "object" /\ content.val = <<>>
                      THEN Some(variant) ELSE None
             ELSE None
      [] ty.kind = "Option" ->
             IF v.type = "null" THEN Some(None)
             ELSE LET x == Deserialize(v, ty.of)
                  IN  IF IsSome(x) THEN Some(Some(x[1])) ELSE None
      [] ty.kind = "Vec" ->
             IF v.type # "array" THEN None
             ELSE LET xs == [i \in 1..Len(v.val) |-> Deserialize(v.val[i], ty.of)]
                  IN  IF \A i \in 1..Len(xs) : IsSome(xs[i])
                      THEN Some([i \in 1..Len(xs) |-> xs[i][1]])
                      ELSE None
      [] ty.kind = "struct" ->
             LET fields == ty.fields
             IN  IF v.type = "object"
                 THEN \* visit_map: fields by key, other keys ignored; a
                      \* field given twice is an error (duplicate field), a
                      \* missing field is one unless it is an Option
                      Collect(fields,
                          [i \in 1..Len(fields) |->
                              LET at == {j \in 1..Len(v.val) :
                                            v.val[j].key = fields[i].key}
                              IN  IF Cardinality(at) > 1 THEN None
                                  ELSE IF Cardinality(at) = 1
                                  THEN Deserialize(v.val[CHOOSE j \in at : TRUE].value,
                                                   fields[i].ty)
                                  ELSE IF fields[i].ty.kind = "Option" THEN Some(None)
                                  ELSE None])
                 ELSE IF v.type = "array" /\ Len(v.val) = Len(fields)
                 THEN \* visit_seq: one element per field, in declaration order
                      Collect(fields,
                          [i \in 1..Len(fields) |->
                              Deserialize(v.val[i], fields[i].ty)])
                 ELSE None

\* Deserialize of an internally tagged enum (#[serde(tag = tag_name)]): the
\* variant named by the tag and the rest of the value, or None.  A map has
\* the tag under the key tag_name, once; a sequence has it as first element.
TaggedContent(v, tag_name, variants) ==
    IF v.type = "object"
    THEN LET at == {j \in 1..Len(v.val) : v.val[j].key = tag_name}
             other(member) == member.key # tag_name
         IN  IF Cardinality(at) # 1 THEN None
             ELSE LET tag == v.val[CHOOSE j \in at : TRUE].value
                  IN  IF tag.type = "string" /\ tag.val \in variants
                      THEN Some([tag |-> tag.val,
                                 content |-> JsonObject(SelectSeq(v.val, other))])
                      ELSE None
    ELSE IF v.type = "array"
    THEN IF /\ Len(v.val) >= 1
            /\ v.val[1].type = "string"
            /\ v.val[1].val \in variants
         THEN Some([tag |-> v.val[1].val, content |-> JsonArray(Tail(v.val))])
         ELSE None
    ELSE None

\* the types of common.rs and webhook.rs
UserStruct ==
    Struct(<<Field("email", String), Field("id", U64),
             Field("name", String), Field("username", String)>>)
MergeRequestAttributesStruct ==
    Struct(<<Field("action", Option(String)), Field("iid", U64),
             Field("merge_status", StringEnum(MergeStatus)),
             Field("title", String), Field("url", String)>>)
PipelineAttributesStruct ==
    Struct(<<Field("finished_at", Option(String)), Field("id", U64),
             Renamed("ref_", "ref", String),
             Field("status", StringEnum(StatusState))>>)
ProjectStruct ==
    Struct(<<Field("id", U64), Field("name", String),
             Field("path_with_namespace", String), Field("web_url", String)>>)
AssigneeChangesStruct ==
    Struct(<<Field("current", Vec(UserStruct)), Field("previous", Vec(UserStruct))>>)
ChangesStruct ==
    Struct(<<Field("assignees", Option(AssigneeChangesStruct))>>)
MergeRequestWebhookStruct ==
    Struct(<<Field("assignees", Option(Vec(UserStruct))),
             Field("changes", Option(ChangesStruct)),
             Renamed("merge_request", "object_attributes", MergeRequestAttributesStruct),
             Field("project", ProjectStruct),
             Field("user", UserStruct)>>)
PipelineWebhookStruct ==
    Struct(<<Field("merge_request", Option(MergeRequestAttributesStruct)),
             Renamed("pipeline", "object_attributes", PipelineAttributesStruct),
             Field("project", ProjectStruct),
             Field("user", UserStruct)>>)

\* a variant of the enum Webhook around its deserialized struct
Variant(kind, webhook) ==
    IF IsSome(webhook) THEN Some([kind |-> kind] @@ webhook[1]) ELSE None

\* Webhook::MergeRequest of webhook.rs from the content of the tagged value
DecodeMergeRequestWebhook(content) ==
    Variant("merge_request", Deserialize(content, MergeRequestWebhookStruct))

\* Webhook::Pipeline of webhook.rs from the content of the tagged value
DecodePipelineWebhook(content) ==
    Variant("pipeline", Deserialize(content, PipelineWebhookStruct))

\* serde_json::from_str::<Webhook>: the internally tagged enum Webhook
decode_webhook(b) ==
    IF ~b.json THEN None
    ELSE LET tagged == TaggedContent(b.obj, "object_kind", {"merge_request", "pipeline"})
         IN  IF IsNone(tagged) THEN None
             ELSE IF tagged[1].tag = "merge_request"
                  THEN DecodeMergeRequestWebhook(tagged[1].content)
             ELSE DecodePipelineWebhook(tagged[1].content)

----------------------------------------------------------------------------
(* NotificationComposer of webhook.rs.  A message text is the tuple of the *)
(* values its format string embeds, in order, ending with its marker.      *)

\* MergeRequestWebhook::get_assignee_changes
get_assignee_changes(webhook) ==
    IF IsSome(webhook.changes) THEN webhook.changes[1].assignees ELSE None

process_new_assignee_to_actor(new_assignee, webhook) ==
    Some([recipient_email |-> webhook.user.email,
          message |-> <<webhook.merge_request.iid, webhook.merge_request.title,
                        webhook.merge_request.url, webhook.project.name,
                        webhook.project.web_url, webhook.user.username,
                        "Added as assignee">>])

process_new_assignee(new_assignee, webhook) ==
    Some([recipient_email |-> new_assignee.email,
          message |-> <<webhook.merge_request.iid, webhook.merge_request.title,
                        webhook.merge_request.url, webhook.project.name,
                        webhook.project.web_url, webhook.user.username,
                        "Added as assignee">>])

RECURSIVE push_messages(_, _)
\* the for loop of process_merge_request: one push per Some(msg)
push_messages(new_assignees, webhook) ==
    IF new_assignees = <<>> THEN <<>>
    ELSE process_new_assignee(Head(new_assignees), webhook)
         \o push_messages(Tail(new_assignees), webhook)

Ok(messages) == [tag |-> "ok", messages |-> messages, error |-> ""]
Err(error) == [tag |-> "err", messages |-> <<>>, error |-> error]
NoResult == [tag |-> "none", messages |-> <<>>, error |-> ""]

process_merge_request(webhook) ==
    LET assignee_changes == get_assignee_changes(webhook)
    IN  IF IsSome(assignee_changes)
        THEN Ok(push_messages(get_new_assignees(assignee_changes[1]), webhook))
        ELSE Ok(<<>>)

\* the match on pipeline.status in process_pipeline_status
status_text_with_canceled(status) ==
    IF status = "success" THEN Some("Success")
    ELSE IF status = "failed" THEN Some("Failed")
    ELSE IF status = "running" THEN Some("Running")
    ELSE IF status = "canceled" THEN Some("Canceled")
    ELSE None

status_text(status) ==
    IF status = "success" THEN Some("Success")
    ELSE IF status = "failed" THEN Some("Failed")
    ELSE IF status = "running" THEN Some("Running")
    ELSE None

\* what the GitLab API answers when a lookup succeeds
PipelineDetails(project_id, pipeline_id) ==
    [ref |-> "fail-pipeline", status |-> "running",
     web_url |-> "https://x/mr-test/-/pipelines/9"]
MergeRequestDetails(project_id, merge_request_iid) ==
    [iid |-> merge_request_iid, title |-> "Fail pipeline",
     web_url |-> "https://x/mr-test/-/merge_requests/3"]

\* the Message process_pipeline_status builds once both lookups have answered
pipeline_message_to_username(webhook, pipeline_details, merge_request, text) ==
    [recipient_email |-> webhook.user.username,
     message |-> <<merge_request.iid, merge_request.title, merge_request.web_url,
                   webhook.project.name, webhook.project.web_url,
                   webhook.pipeline.id, pipeline_details.web_url, text>>]

pipeline_message(webhook, pipeline_details, merge_request, text) ==
    [recipient_email |-> webhook.user.email,
     message |-> <<merge_request.iid, merge_request.title, merge_request.web_url,
                   webhook.project.name, webhook.project.web_url,
                   webhook.pipeline.id, pipeline_details.web_url, text>>]

\* process_pipeline: Some(message) => Ok(vec![message]), None => Ok(Vec::new())
process_pipeline(message) ==
    IF IsSome(message) THEN Ok(<<message[1]>>) ELSE Ok(<<>>)

\* How a GitLab lookup can end: it answers; Gitlab::new fails; the query fails.
LookupOutcomes == {"ok", "client_error", "query_error"}

\* GitlabClient::get_pipeline_details / get_merge_request_details: both
\* unwrap() the client and the query result, so every failure is a panic.
lookup_panics(outcome) == outcome # "ok"

Lookup(fn, project_id, id) ==
    [fn |-> fn, project_id |-> project_id, id |-> id, outcome |-> "pending"]

\* the last lookup of the log, completed with its outcome
Complete(calls, outcome) ==
    [calls EXCEPT ![Len(calls)].outcome = outcome]

----------------------------------------------------------------------------
(* process_webhook (webhook.rs), one step per stretch of code between awaits *)

Finish(d, r) ==
    /\ pc' = [pc EXCEPT ![d] = "done"]
    /\ result' = [result EXCEPT ![d] = r]
    /\ UNCHANGED lookups

\* a mutant of Panic: the panic of one task takes the whole process down
PanicAbortsProcess(d) ==
    /\ pc' = [e \in DOMAIN pc |-> "panicked"]
    /\ UNCHANGED result

\* an unwrap() of Err panics: the stack of the task unwinds and the task
\* ends; the other tasks of the runtime started at main.rs:275 go on
Panic(d) ==
    /\ pc' = [pc EXCEPT ![d] = "panicked"]
    /\ UNCHANGED result

\* a mutant of ProcessWebhook: the first lookup is started before the
\* status is looked at
ProcessWebhookLookupFirst(d) ==
    /\ pc[d] = "start"
    /\ LET webhook == decode_webhook(body[d])
       IN  IF ~body[d].utf8 THEN Finish(d, Err("FromUtf8Error"))
           ELSE IF IsNone(webhook) THEN Finish(d, Err("UnsupportedWebhook"))
           ELSE IF webhook[1].kind = "merge_request"
                THEN Finish(d, process_merge_request(webhook[1]))
           ELSE /\ lookups' = [lookups EXCEPT ![d] =
                       Append(@, Lookup("get_pipeline_details",
                                        webhook[1].project.id, webhook[1].pipeline.id))]
                /\ pc' = [pc EXCEPT ![d] = "get_pipeline_details"]
                /\ UNCHANGED result
    /\ UNCHANGED <<body, whoami_link, queue, sends, log, response, diff>>

\* process_webhook from its entry to its return or to the first lookup
ProcessWebhook(d) ==
    /\ pc[d] = "start"
    /\ LET webhook == decode_webhook(body[d])
       IN  IF ~body[d].utf8 THEN Finish(d, Err("FromUtf8Error"))
           ELSE IF IsNone(webhook) THEN Finish(d, Err("UnsupportedWebhook"))
           ELSE IF webhook[1].kind = "merge_request"
                THEN Finish(d, process_merge_request(webhook[1]))
           ELSE IF IsNone(status_text(webhook[1].pipeline.status))
                THEN Finish(d, process_pipeline(None))
           ELSE /\ lookups' = [lookups EXCEPT ![d] =
                       Append(@, Lookup("get_pipeline_details",
                                        webhook[1].project.id, webhook[1].pipeline.id))]
                /\ pc' = [pc EXCEPT ![d] = "get_pipeline_details"]
                /\ UNCHANGED result
    /\ UNCHANGED <<body, whoami_link, queue, sends, log, response, diff>>

\* a mutant of the step below: a failed first lookup is ignored
GetPipelineDetailsReturnsUnchecked(d, outcome) ==
    /\ pc[d] = "get_pipeline_details"
    /\ LET webhook == decode_webhook(body[d])[1]
           done == Complete(lookups[d], outcome)
       IN  IF IsNone(webhook.merge_request)
           THEN /\ lookups' = [lookups EXCEPT ![d] = done]
                /\ pc' = [pc EXCEPT ![d] = "done"]
                /\ result' = [result EXCEPT ![d] = process_pipeline(None)]
           ELSE /\ lookups' = [lookups EXCEPT ![d] =
                       Append(done, Lookup("get_merge_request_details",
                                           webhook.project.id, webhook.merge_request[1].iid))]
                /\ pc' = [pc EXCEPT ![d] = "get_merge_request_details"]
                /\ UNCHANGED result
    /\ UNCHANGED <<body, whoami_link, queue, sends, log, response, diff>>

\* get_pipeline_details ends; on success the code goes on to the merge
\* request check and, with one linked, to the second lookup
GetPipelineDetailsReturns(d, outcome) ==
    /\ pc[d] = "get_pipeline_details"
    /\ LET webhook == decode_webhook(body[d])[1]
           done == Complete(lookups[d], outcome)
       IN  IF lookup_panics(outcome)
           THEN /\ lookups' = [lookups EXCEPT ![d] = done]
                /\ Panic(d)
           ELSE IF IsNone(webhook.merge_request)
           THEN /\ lookups' = [lookups EXCEPT ![d] = done]
                /\ pc' = [pc EXCEPT ![d] = "done"]
                /\ result' = [result EXCEPT ![d] = process_pipeline(None)]
           ELSE /\ lookups' = [lookups EXCEPT ![d] =
                       Append(done, Lookup("get_merge_request_details",
                                           webhook.project.id, webhook.merge_request[1].iid))]
                /\ pc' = [pc EXCEPT ![d] = "get_merge_request_details"]
                /\ UNCHANGED result
    /\ UNCHANGED <<body, whoami_link, queue, sends, log, response, diff>>

\* get_merge_request_details ends; on success the message is built
GetMergeRequestDetailsReturns(d, outcome) ==
    /\ pc[d] = "get_merge_request_details"
    /\ LET webhook == decode_webhook(body[d])[1]
           done == Complete(lookups[d], outcome)
           message == pipeline_message(
                          webhook,
                          PipelineDetails(lookups[d][1].project_id, lookups[d][1].id),
                          MergeRequestDetails(done[2].project_id, done[2].id),
                          status_text(webhook.pipeline.status)[1])
       IN  /\ lookups' = [lookups EXCEPT ![d] = done]
           /\ IF lookup_panics(outcome)
              THEN Panic(d)
              ELSE /\ pc' = [pc EXCEPT ![d] = "done"]
                   /\ result' = [result EXCEPT ![d] = process_pipeline(Some(message))]
    /\ UNCHANGED <<body, whoami_link, queue, sends, log, response, diff>>

NoResponse == [status |-> "none", body |-> "none"]
IdleDiff ==
    [assignee_changes |-> [current |-> <<>>, previous |-> <<>>],
     pc |-> "idle", new_assignees |-> <<>>]

\* the deliveries arrive; nothing has run yet
Init ==
    /\ body \in [Deliveries -> Bodies]
    /\ pc = [d \in Deliveries |-> "start"]
    /\ lookups = [d \in Deliveries |-> <<>>]
    /\ result = [d \in Deliveries |-> NoResult]
    /\ whoami_link = None
    /\ queue = [d \in Deliveries |-> <<>>]
    /\ sends = [d \in Deliveries |-> <<>>]
    /\ log = [d \in Deliveries |-> <<>>]
    /\ response = [d \in Deliveries |-> NoResponse]
    /\ diff = IdleDiff

Next ==
    \/ \E d \in Deliveries : ProcessWebhook(d)
    \/ \E d \in Deliveries, outcome \in LookupOutcomes : GetPipelineDetailsReturns(d, outcome)
    \/ \E d \in Deliveries, outcome \in LookupOutcomes : GetMergeRequestDetailsReturns(d, outcome)

Spec == Init /\ [][Next]_vars

----------------------------------------------------------------------------
(* main.rs: its own webhook types, composer and the service function handle *)

\* the types of main.rs: its enums are derived, its MergeRequestAttributes
\* has no action, its Project no id and no path_with_namespace, its
\* PipelineWebhook no merge_request
MainMergeRequestAttributesStruct ==
    Struct(<<Field("iid", U64), Field("merge_status", DerivedEnum(MergeStatus)),
             Field("title", String), Field("url", String)>>)
MainPipelineAttributesStruct ==
    Struct(<<Field("finished_at", Option(String)), Field("id", U64),
             Renamed("ref_", "ref", String),
             Field("status", DerivedEnum(StatusState))>>)
MainProjectStruct ==
    Struct(<<Field("name", String), Field("web_url", String)>>)
MainMergeRequestWebhookStruct ==
    Struct(<<Field("assignees", Option(Vec(UserStruct))),
             Field("changes", Option(ChangesStruct)),
             Renamed("merge_request", "object_attributes", MainMergeRequestAttributesStruct),
             Field("project", MainProjectStruct),
             Field("user", UserStruct)>>)
MainPipelineWebhookStruct ==
    Struct(<<Renamed("pipeline", "object_attributes", MainPipelineAttributesStruct),
             Field("project", MainProjectStruct),
             Field("user", UserStruct)>>)

\* serde_json::from_str::<Webhook> with the enum Webhook of main.rs
main_decode_webhook(b) ==
    IF ~b.json THEN None
    ELSE LET tagged == TaggedContent(b.obj, "object_kind", {"merge_request", "pipeline"})
         IN  IF IsNone(tagged) THEN None
             ELSE IF tagged[1].tag = "merge_request"
                  THEN Variant("merge_request",
                               Deserialize(tagged[1].content, MainMergeRequestWebhookStruct))
             ELSE Variant("pipeline",
                          Deserialize(tagged[1].content, MainPipelineWebhookStruct))

\* webex::Message::new
Message(to_person_email, markdown) ==
    [to_person_email |-> to_person_email, markdown |-> markdown]

main_process_new_assignee(new_assignee, webhook) ==
    Some(Message(new_assignee.email,
                 <<"MR", webhook.merge_request.iid, webhook.merge_request.title,
                   webhook.merge_request.url, webhook.project.name,
                   webhook.project.web_url, webhook.user.username,
                   "Added as assignee">>))

main_process_pipeline_status(webhook) ==
    LET text == status_text(webhook.pipeline.status)
    IN  IF IsNone(text) THEN None
        ELSE Some(Message(webhook.user.email,
                          <<"Pipeline", webhook.pipeline.id, webhook.pipeline.ref_,
                            webhook.project.web_url, webhook.pipeline.id, text[1]>>))

RECURSIVE main_assignee_messages(_, _)
\* the messages of handle's for loop over get_new_assignees, in loop order
main_assignee_messages(new_assignees, webhook) ==
    IF new_assignees = <<>> THEN <<>>
    ELSE main_process_new_assignee(Head(new_assignees), webhook)
         \o main_assignee_messages(Tail(new_assignees), webhook)

\* every message the match of handle sends for a decoded webhook, in order
main_messages(webhook) ==
    IF webhook.kind = "merge_request"
    THEN LET assignee_changes == get_assignee_changes(webhook)
         IN  IF IsSome(assignee_changes)
             THEN main_assignee_messages(get_new_assignees(assignee_changes[1]), webhook)
             ELSE <<>>
    ELSE main_process_pipeline_status(webhook)

\* WebexClient::send_message, up to the post: the whoami suffix is appended
posted_message(link, msg) ==
    IF IsSome(link)
    THEN [msg EXCEPT !.markdown = @ \o <<"who am I?", link[1]>>]
    ELSE msg

\* How send_message can end: Ok(()) with a JSON reply; Ok(()) after warning
\* that the reply is no JSON; Err from send().
SendOutcomes == {"ok", "unparsed_reply", "error"}

Send(msg) == [msg |-> posted_message(whoami_link, msg), outcome |-> "pending"]

\* the lines send_message and the match arm around it log for one outcome
SendLog(kind, outcome) ==
    IF outcome = "error"
    THEN <<IF kind = "merge_request" THEN "warn: Error sending assignee message"
                                     ELSE "warn: Error sending pipeline message">>
    ELSE (IF outcome = "unparsed_reply"
          THEN <<"warn: Couldn't parse body to JSON">> ELSE <<>>)
         \o <<IF kind = "merge_request" THEN "info: Sent assignee message"
                                        ELSE "info: Sent pipeline message">>

OkResponse(bodyText) == [status |-> "200 OK", body |-> bodyText]

\* handle from its entry to the await of body::to_bytes: the response is
\* built (200 OK, empty body) and the task waits for the request body
Handle(d) ==
    /\ pc[d] = "start"
    /\ response' = [response EXCEPT ![d] = OkResponse("empty")]
    /\ pc' = [pc EXCEPT ![d] = "to_bytes"]
    /\ UNCHANGED <<body, lookups, result, whoami_link, queue, sends, log, diff>>

\* body::to_bytes ends; handle goes on to its first send_message, or to its end
ToBytesReturns(d, read) ==
    /\ pc[d] = "to_bytes"
    /\ IF read = "error"
       THEN /\ log' = [log EXCEPT ![d] = Append(@, "warn: Error")]
            /\ pc' = [pc EXCEPT ![d] = "respond"]
            /\ UNCHANGED <<queue, sends, response>>
       ELSE IF ~body[d].utf8 \/ ~body[d].json
       THEN \* the unwrap() of from_utf8 or of the Value parse panics:
            \* the response built at entry is dropped with the task
            /\ Panic(d)
            /\ response' = [response EXCEPT ![d] = NoResponse]
            /\ UNCHANGED <<queue, sends, log>>
       ELSE LET webhook == main_decode_webhook(body[d])
                messages == IF IsSome(webhook) THEN main_messages(webhook[1]) ELSE <<>>
            IN  /\ response' = [response EXCEPT ![d] = OkResponse("uppercased request")]
                /\ log' = [log EXCEPT ![d] =
                        IF IsNone(webhook)
                        THEN Append(@, "warn: Error decoding web hook") ELSE @]
                /\ queue' = [queue EXCEPT ![d] = messages]
                /\ IF messages = <<>>
                   THEN /\ pc' = [pc EXCEPT ![d] = "respond"]
                        /\ UNCHANGED sends
                   ELSE /\ pc' = [pc EXCEPT ![d] = "send_message"]
                        /\ sends' = [sends EXCEPT ![d] = Append(@, Send(Head(messages)))]
    /\ UNCHANGED <<body, lookups, result, whoami_link, diff>>

\* a mutant of the step below: a failed send ends the loop
SendMessageReturnsStopOnError(d, outcome) ==
    /\ pc[d] = "send_message"
    /\ LET kind == main_decode_webhook(body[d])[1].kind
           rest == IF outcome = "error" THEN <<>> ELSE Tail(queue[d])
           done == Complete(sends[d], outcome)
       IN  /\ log' = [log EXCEPT ![d] = @ \o SendLog(kind, outcome)]
           /\ queue' = [queue EXCEPT ![d] = rest]
           /\ IF rest = <<>>
              THEN /\ sends' = [sends EXCEPT ![d] = done]
                   /\ pc' = [pc EXCEPT ![d] = "respond"]
              ELSE /\ sends' = [sends EXCEPT ![d] = Append(done, Send(Head(rest)))]
                   /\ UNCHANGED pc
    /\ UNCHANGED <<body, lookups, result, whoami_link, response, diff>>

\* send_message ends: its outcome is logged and the loop goes on to the
\* next message, or handle reaches its end
SendMessageReturns(d, outcome) ==
    /\ pc[d] = "send_message"
    /\ LET kind == main_decode_webhook(body[d])[1].kind
           rest == Tail(queue[d])
           done == Complete(sends[d], outcome)
       IN  /\ log' = [log EXCEPT ![d] = @ \o SendLog(kind, outcome)]
           /\ queue' = [queue EXCEPT ![d] = rest]
           /\ IF rest = <<>>
              THEN /\ sends' = [sends EXCEPT ![d] = done]
                   /\ pc' = [pc EXCEPT ![d] = "respond"]
              ELSE /\ sends' = [sends EXCEPT ![d] = Append(done, Send(Head(rest)))]
                   /\ UNCHANGED pc
    /\ UNCHANGED <<body, lookups, result, whoami_link, response, diff>>

\* handle returns Ok(response) and hyper writes it to the sender
Respond(d) ==
    /\ pc[d] = "respond"
    /\ pc' = [pc EXCEPT ![d] = "done"]
    /\ UNCHANGED <<body, lookups, result, whoami_link, queue, sends, log, response, diff>>

\* WebexClient::new: whoami_link comes from the configuration
HandleInit ==
    /\ body \in [Deliveries -> Bodies]
    /\ pc = [d \in Deliveries |-> "start"]
    /\ lookups = [d \in Deliveries |-> <<>>]
    /\ result = [d \in Deliveries |-> NoResult]
    /\ whoami_link \in {None, Some("https://x/whoami")}
    /\ queue = [d \in Deliveries |-> <<>>]
    /\ sends = [d \in Deliveries |-> <<>>]
    /\ log = [d \in Deliveries |-> <<>>]
    /\ response = [d \in Deliveries |-> NoResponse]
    /\ diff = IdleDiff

HandleNext ==
    \/ \E d \in Deliveries : Handle(d)
    \/ \E d \in Deliveries, read \in {"ok", "error"} : ToBytesReturns(d, read)
    \/ \E d \in Deliveries, outcome \in SendOutcomes : SendMessageReturns(d, outcome)
    \/ \E d \in Deliveries : Respond(d)

HandleSpec == HandleInit /\ [][HandleNext]_vars

----------------------------------------------------------------------------
(* get_new_assignees applied to every pair of bounded user lists *)

UserLists == UNION { [1..n -> Users] : n \in 0..MaxAssignees }

ApplyGetNewAssignees ==
    /\ diff.pc = "start"
    /\ diff' = [diff EXCEPT !.pc = "done",
                            !.new_assignees = get_new_assignees(diff.assignee_changes)]
    /\ UNCHANGED <<body, pc, lookups, result, whoami_link, queue, sends, log, response>>

DiffInit ==
    /\ body = [d \in Deliveries |-> JsonBody(JsonRecord(EmptyObj))]
    /\ pc = [d \in Deliveries |-> "idle"]
    /\ lookups = [d \in Deliveries |-> <<>>]
    /\ result = [d \in Deliveries |-> NoResult]
    /\ whoami_link = None
    /\ queue = [d \in Deliveries |-> <<>>]
    /\ sends = [d \in Deliveries |-> <<>>]
    /\ log = [d \in Deliveries |-> <<>>]
    /\ response = [d \in Deliveries |-> NoResponse]
    /\ \E current \in UserLists, previous \in UserLists :
           diff = [assignee_changes |-> [current |-> current, previous |-> previous],
                   pc |-> "start", new_assignees |-> <<>>]

DiffNext == ApplyGetNewAssignees

DiffSpec == DiffInit /\ [][DiffNext]_vars

----------------------------------------------------------------------------
(* Properties of process_webhook (Spec) *)

\* the `webhook` local of process_webhook, an Option
Webhook(d) == decode_webhook(body[d])

IsPipelineEvent(d) == IsSome(Webhook(d)) /\ Webhook(d)[1].kind = "pipeline"
IsMergeRequestEvent(d) == IsSome(Webhook(d)) /\ Webhook(d)[1].kind = "merge_request"

\* the statuses that have a status text
NotificationWorthy == {"success", "failed", "running"}

\* C1: a pipeline event that carries no linked merge request, whatever its
\* status, yields no notification and starts neither get_pipeline_details
\* nor get_merge_request_details.
C1_NoMergeRequestNoLookup ==
    \A d \in Deliveries :
        (IsPipelineEvent(d) /\ IsNone(Webhook(d)[1].merge_request))
            => /\ lookups[d] = <<>>
               /\ result[d].messages = <<>>

\* C2: for a pipeline event with a status text and a linked merge request, a
\* lookup that fails is not retried and process_pipeline still returns
\* normally, with Ok and an empty list: no error and no panic escapes.
C2_LookupFailureYieldsEmptyList ==
    \A d \in Deliveries :
        (/\ IsPipelineEvent(d)
         /\ Webhook(d)[1].pipeline.status \in NotificationWorthy
         /\ IsSome(Webhook(d)[1].merge_request)
         /\ \E i \in 1..Len(lookups[d]) : lookups[d][i].outcome \notin {"pending", "ok"})
            => /\ pc[d] = "done"
               /\ result[d] = Ok(<<>>)
               /\ lookups[d][Len(lookups[d])].outcome \notin {"pending", "ok"}

\* C6: a pipeline event with status success, failed or running and a linked
\* merge request, both of whose lookups succeeded, yields exactly one
\* notification, addressed to the email of the event's triggering user.
C6_EnrichedPipelineYieldsOneNotification ==
    \A d \in Deliveries :
        (/\ IsPipelineEvent(d)
         /\ Webhook(d)[1].pipeline.status \in NotificationWorthy
         /\ IsSome(Webhook(d)[1].merge_request)
         /\ Len(lookups[d]) = 2
         /\ lookups[d][1].outcome = "ok"
         /\ lookups[d][2].outcome = "ok")
            => /\ pc[d] = "done"
               /\ result[d].tag = "ok"
               /\ Len(result[d].messages) = 1
               /\ result[d].messages[1].recipient_email = Webhook(d)[1].user.email

C6_Witness ==
    \E d \in Deliveries :
        /\ IsPipelineEvent(d)
        /\ Webhook(d)[1].pipeline.status = "running"
        /\ Len(lookups[d]) = 2
        /\ lookups[d][2].outcome = "ok"
        /\ Len(result[d].messages) = 1

\* C7: a pipeline event whose status is none of success, failed, running
\* yields zero notifications, with or without a linked merge request: its
\* processing ends at once with Ok and the empty list, whatever the lookups
\* would have answered.
C7_OtherStatusYieldsNothing ==
    \A d \in Deliveries :
        (IsPipelineEvent(d) /\ Webhook(d)[1].pipeline.status \notin NotificationWorthy)
            => /\ result[d].messages = <<>>
               /\ pc[d] \in {"start", "done"}
               /\ pc[d] = "done" => result[d] = Ok(<<>>)

C7_Witness ==
    \E d \in Deliveries :
        /\ IsPipelineEvent(d)
        /\ Webhook(d)[1].pipeline.status = "canceled"
        /\ IsSome(Webhook(d)[1].merge_request)
        /\ pc[d] = "done"

\* C8: for a merge-request event process_merge_request returns Ok with
\* exactly one notification per user of get_new_assignees, in that order,
\* each addressed to that user's email; without a changes block or without
\* an assignees record in it the result is Ok with the empty list.
C8_OneNotificationPerNewAssignee ==
    \A d \in Deliveries :
        (IsMergeRequestEvent(d) /\ pc[d] = "done")
            => LET w == Webhook(d)[1]
                   noRecord == IsNone(w.changes) \/ IsNone(w.changes[1].assignees)
                   users == IF noRecord THEN <<>>
                            ELSE get_new_assignees(w.changes[1].assignees[1])
               IN  /\ result[d].tag = "ok"
                   /\ Len(result[d].messages) = Len(users)
                   /\ \A i \in 1..Len(users) :
                          result[d].messages[i].recipient_email = users[i].email

C8_Witness ==
    \E d \in Deliveries :
        /\ IsMergeRequestEvent(d)
        /\ pc[d] = "done"
        /\ Len(result[d].messages) = 2
        /\ result[d].messages[1].recipient_email # result[d].messages[2].recipient_email

\* C9: get_merge_request_details is started only as the second lookup, after
\* get_pipeline_details has answered successfully; once get_pipeline_details
\* has failed no further lookup is started.
C9_LookupsAreSequential ==
    \A d \in Deliveries :
        /\ \A i \in 1..Len(lookups[d]) :
               lookups[d][i].fn = "get_merge_request_details"
                   => /\ i = 2
                      /\ lookups[d][1].fn = "get_pipeline_details"
                      /\ lookups[d][1].outcome = "ok"
        /\ (Len(lookups[d]) >= 1 /\ lookups[d][1].outcome \notin {"pending", "ok"})
               => Len(lookups[d]) = 1

C9_Witness ==
    \E d \in Deliveries :
        /\ Len(lookups[d]) = 2
        /\ lookups[d][2].fn = "get_merge_request_details"
        /\ lookups[d][2].outcome = "pending"

----------------------------------------------------------------------------
(* Properties of handle (HandleSpec) *)

\* C3: the response of a delivery does not wait for its processing: while a
\* send of the delivery is still in flight, returning the response is
\* possible.
C3_ResponseDoesNotWaitForSend ==
    \A d \in Deliveries : pc[d] = "send_message" => ENABLED Respond(d)

\* C4: a body that decodes to neither a merge-request nor a pipeline event
\* sends no notification and never aborts the handler; the sender gets a
\* successful acknowledgment.
C4_UndecodableBodyIsAcknowledged ==
    \A d \in Deliveries :
        IsNone(main_decode_webhook(body[d]))
            => /\ sends[d] = <<>>
               /\ pc[d] # "panicked"
               /\ pc[d] = "done" => response[d].status = "200 OK"

\* the messages handle posts for delivery d once its body is read, in order
Notifications(d) ==
    LET webhook == main_decode_webhook(body[d])
        messages == IF IsSome(webhook) THEN main_messages(webhook[1]) ELSE <<>>
    IN  [i \in 1..Len(messages) |-> posted_message(whoami_link, messages[i])]

Count(list, x) == Cardinality({i \in 1..Len(list) : list[i] = x})

\* C10: the notifications n1..nk of a delivery are sent once each, in list
\* order and one at a time; a failed send is logged, is not retried and does
\* not keep the later ones from being sent.
C10_EachNotificationSentOnceInOrder ==
    \A d \in Deliveries :
        LET n == Notifications(d)
        IN  /\ Len(sends[d]) <= Len(n)
            /\ \A i \in 1..Len(sends[d]) : sends[d][i].msg = n[i]
            /\ \A i \in 1..(Len(sends[d]) - 1) : sends[d][i].outcome # "pending"
            /\ (pc[d] \in {"respond", "done"} /\ response[d].body = "uppercased request")
                   => /\ Len(sends[d]) = Len(n)
                      /\ \A i \in 1..Len(sends[d]) : sends[d][i].outcome # "pending"
            /\ Cardinality({i \in 1..Len(sends[d]) : sends[d][i].outcome = "error"})
                   = Count(log[d], "warn: Error sending assignee message")
                     + Count(log[d], "warn: Error sending pipeline message")

C10_Witness ==
    \E d \in Deliveries :
        /\ pc[d] = "done"
        /\ Len(sends[d]) = 2
        /\ sends[d][1].outcome = "error"
        /\ sends[d][2].outcome = "ok"

----------------------------------------------------------------------------
(* Properties of get_new_assignees (DiffSpec) *)

Ids(list) == {list[i].id : i \in 1..Len(list)}

\* C5: get_new_assignees returns exactly the elements of current whose id is
\* the id of no element of previous, in current's order, whatever their other
\* fields; when current and previous hold the same ids the result is empty.
C5_NewAssigneesAreCurrentMinusPreviousById ==
    diff.pc = "done" =>
        LET current == diff.assignee_changes.current
            previous == diff.assignee_changes.previous
            absent(u) == u.id \notin Ids(previous)
        IN  /\ diff.new_assignees = SelectSeq(current, absent)
            /\ Ids(current) = Ids(previous) => diff.new_assignees = <<>>

C5_Witness ==
    /\ diff.pc = "done"
    /\ Len(diff.new_assignees) = 1
    /\ Len(diff.assignee_changes.current) = 2
    /\ \E i \in 1..2, j \in 1..Len(diff.assignee_changes.previous) :
           /\ diff.assignee_changes.current[i].id = diff.assignee_changes.previous[j].id
           /\ diff.assignee_changes.current[i] # diff.assignee_changes.previous[j]

----------------------------------------------------------------------------
(* Outbound calls and their bounds *)

\* delivery d is suspended in an outbound call: a GitLab lookup or a send
AwaitsCollaborator(d) ==
    pc[d] \in {"get_pipeline_details", "get_merge_request_details", "send_message"}

\* the steps process_webhook takes on its own for delivery d, with no answer
\* of a collaborator: the code sets no timeout on a lookup, so the expiry of
\* one is none of them
OwnStep(d) == ProcessWebhook(d)

\* C11: every outbound call is bounded by a timeout whose expiry counts as a
\* failure, so processing goes on even when the collaborator never answers:
\* a delivery suspended in a call always has a step of its own to take.
C11_EveryCallIsBounded ==
    \A d \in Deliveries : AwaitsCollaborator(d) => ENABLED OwnStep(d)

----------------------------------------------------------------------------
(* Concurrent deliveries: hyper runs one task per connection, so several   *)
(* deliveries are in flight at once and their steps interleave.  Each is   *)
(* taken by one of the two entry points.                                    *)

Concurrent == 1..NumConcurrent

\* one body per way a delivery can fail or succeed
ConcurrentBodies ==
    { InvalidJsonBody,
      PushBody,
      MergeRequestBody(Some(MergeRequestJson),
                       Some(ChangesJson([current |-> <<User(1, "a@x"), User(2, "b@x")>>,
                                         previous |-> <<User(1, "a@x")>>])),
                       ProjectJson),
      PipelineBody("success", Some(MergeRequestJson), ProjectJson, Some(ActorJson)) }

\* the clients are built once (main.rs:286) and cloned into every task
ConcurrentInit ==
    /\ body \in [Concurrent -> ConcurrentBodies]
    /\ pc = [d \in Concurrent |-> "start"]
    /\ lookups = [d \in Concurrent |-> <<>>]
    /\ result = [d \in Concurrent |-> NoResult]
    /\ whoami_link \in {None, Some("https://x/whoami")}
    /\ queue = [d \in Concurrent |-> <<>>]
    /\ sends = [d \in Concurrent |-> <<>>]
    /\ log = [d \in Concurrent |-> <<>>]
    /\ response = [d \in Concurrent |-> NoResponse]
    /\ diff = IdleDiff

ConcurrentNext ==
    \/ \E d \in Concurrent : ProcessWebhook(d)
    \/ \E d \in Concurrent, outcome \in LookupOutcomes : GetPipelineDetailsReturns(d, outcome)
    \/ \E d \in Concurrent, outcome \in LookupOutcomes : GetMergeRequestDetailsReturns(d, outcome)
    \/ \E d \in Concurrent : Handle(d)
    \/ \E d \in Concurrent, read \in {"ok", "error"} : ToBytesReturns(d, read)
    \/ \E d \in Concurrent, outcome \in SendOutcomes : SendMessageReturns(d, outcome)
    \/ \E d \in Concurrent : Respond(d)

ConcurrentSpec == ConcurrentInit /\ [][ConcurrentNext]_vars

\* everything the processing of delivery d reads or writes
DeliveryState(d) ==
    <<body[d], pc[d], lookups[d], result[d], queue[d], sends[d], log[d], response[d]>>

----------------------------------------------------------------------------
(* Decode failures and the status check of process_webhook (Spec) *)

\* the bodies of Bodies that hold no well-formed event: no, or an unknown,
\* object_kind, or a block of the selected variant that lacks a required
\* field, holds a value of another type than the field's or repeats a key
MalformedBodies ==
    OtherBodies \cup IllTypedBodies \cup RepeatedKeyBodies
    \cup { PipelineBody("bogus", Some(MergeRequestJson), ProjectJson, Some(ActorJson)),
           PipelineBody("success", Some(MergeRequestJson), ProjectJsonNoId, Some(ActorJson)),
           PipelineBody("success", Some(MergeRequestJson), ProjectJson, None),
           PipelineBody("success", Some(MergeRequestJsonNoTitle), ProjectJson, Some(ActorJson)),
           MergeRequestBody(None, None, ProjectJson),
           MergeRequestBody(Some(MergeRequestJson), Some(ChangesJsonNoPrevious), ProjectJson),
           MergeRequestBody(Some(MergeRequestJson), None, ProjectJsonNoId) }

Undecodable(d) == IsNone(Webhook(d)) \/ body[d] \in MalformedBodies

\* C13: every payload without a recognized discriminator, or not
\* of the selected variant's shape, ends process_webhook with the one failure
\* kind UnsupportedWebhook, no notification and no lookup.
C13_DecodeFailureIsUnsupportedWebhook ==
    \A d \in Deliveries :
        Undecodable(d)
            => /\ result[d].messages = <<>>
               /\ lookups[d] = <<>>
               /\ pc[d] \in {"start", "done"}
               /\ pc[d] = "done"
                      => result[d].tag = "err" /\ result[d].error = "UnsupportedWebhook"

\* C14: the status check comes before every lookup: a lookup is started only
\* for a pipeline event whose status is success, failed or running, and an
\* event of any other status starts neither lookup.
C14_StatusCheckPrecedesLookups ==
    \A d \in Deliveries :
        /\ lookups[d] # <<>>
               => /\ IsPipelineEvent(d)
                  /\ IsSome(status_text(Webhook(d)[1].pipeline.status))
        /\ (IsPipelineEvent(d) /\ Webhook(d)[1].pipeline.status \notin NotificationWorthy)
               => \A i \in 1..Len(lookups[d]) :
                      lookups[d][i].fn \notin {"get_pipeline_details",
                                               "get_merge_request_details"}

C14_Witness ==
    \E d \in Deliveries :
        /\ IsPipelineEvent(d)
        /\ Webhook(d)[1].pipeline.status = "pending"
        /\ IsSome(Webhook(d)[1].merge_request)
        /\ pc[d] = "done"
        /\ lookups[d] = <<>>

====
